---- MODULE Spec2Model ----
(***************************************************************************)
(* Model of packages/axios/base.ts: the client factory (createApi), the    *)
(* retry policy configured on the axios instance, the response             *)
(* interceptor, the error normalizer (handleError), the method facade      *)
(* (createApiClient) and the lazy singleton (initApiClient / request).     *)
(***************************************************************************)
EXTENDS Integers, Sequences, FiniteSets, TLC

VARIABLES
    apiClientInstance,  \* module variable `apiClientInstance` (null or the client)
    tokenStore,         \* what a store-backed getToken accessor returns right now
    getTokenCalls,      \* number of times a caller-supplied getToken has run
    warnings,           \* number of console.warn lines emitted by initApiClient
    initCalls,          \* number of initApiClient calls made so far
    directCalls,        \* number of direct calls of the exported createApi
    directClients,      \* the clients those calls returned to the application
    lastInit,           \* outcome of the latest initApiClient call
    firstInit,          \* history: options of the first call that built a client, and
                        \* what its getToken returned (null when there is none)
    lastAccess,         \* outcome of the latest property access on `request`
    call,               \* the logical request in progress (or the last one settled)
    query               \* a params object handed to paramsSerializer.serialize, and its result

vars == <<apiClientInstance, tokenStore, getTokenCalls, warnings, initCalls,
          directCalls, directClients, lastInit, firstInit, lastAccess, call, query>>

----------------------------------------------------------------------------
\* Bounds of the exploration (not program constants).

\* initApiClient calls explored in one behaviour
MaxInitCalls == 3

\* direct calls of the exported createApi explored in one behaviour
MaxDirectCalls == 1

\* initApiClient calls explored in a behaviour that also sends requests
MaxRequestInits == 1

----------------------------------------------------------------------------
\* Program constants.

\* axiosRetry(api, { retries: 3 })
Retries == 3
\* retryDelay: retryCount * 1000
RetryDelayUnit == 1000
\* axiosConfig.timeout
Timeout == 10000
\* response.data.code === 401
UnauthorizedCode == 401
\* fallback `code` of a synthesized error envelope
FallbackCode == 500

----------------------------------------------------------------------------
\* JavaScript values that travel as response bodies and as method results.
\* `type` is the runtime type; the other fields are meaningful for objects
\* (a missing property is Undef / NoNumber) and `str` for strings.

Null == "<null>"
Undef == "<undefined>"
NoNumber == -1

JsNull == [type |-> "null", data |-> Undef, msg |-> Undef, code |-> NoNumber, str |-> ""]
JsString(s) == [type |-> "string", data |-> Undef, msg |-> Undef, code |-> NoNumber, str |-> s]
JsObject(d, m, c) == [type |-> "object", data |-> d, msg |-> m, code |-> c, str |-> ""]

\* Bodies a server can send (parsed): envelopes, an envelope carrying error
\* details, an object that is not an envelope, text, empty text, JSON null.
EnvOk == JsObject("payload", "ok", 200)
EnvUnauthorized == JsObject(Null, "unauthorized", UnauthorizedCode)
EnvErrorDetail == JsObject("details", "rejected", 422)
PlainObject == JsObject(Undef, Undef, NoNumber)
TextBody == JsString("Bad Gateway")
EmptyBody == JsString("")

Bodies == {EnvOk, EnvUnauthorized, EnvErrorDetail, PlainObject, TextBody, EmptyBody, JsNull}

\* JavaScript truthiness of a body: objects and non-empty strings.
Truthy(v) == v.type = "object" \/ (v.type = "string" /\ v.str # "")

\* BaseResponse<T>: an object with a string msg and a number code.
IsBaseResponse(v) ==
    v.type = "object" /\ v.data # Undef /\ v.msg # Undef /\ v.code # NoNumber

----------------------------------------------------------------------------
\* CreateApiOptions. getToken is absent, reads the token store (as in
\* `() => localStorage.getItem('token')`), or throws.

BaseURLs == {"https://a.example", "https://b.example"}
GetTokenKinds == {"absent", "store", "throws"}
Tokens == {Null, "t1"}

CreateApiOptions == [baseURL : BaseURLs, getToken : GetTokenKinds, onUnauthorized : BOOLEAN]

\* Template literal `${value}`: null prints as the text "null".
TemplateString(v) == IF v = Null THEN "null" ELSE v

NoHeader == "<none>"

\* createApi, lines 30-35: the default headers.
BuildHeaders(options, token) ==
    [contentType |-> "application/json",
     authorization |-> IF options.getToken # "absent"
                       THEN "Bearer " \o TemplateString(token)
                       ELSE NoHeader]

\* createApi + createApiClient: a client, as held by the singleton or by a
\* caller of the two exported functions.
createApi(options, token) ==
    [baseURL |-> options.baseURL,
     headers |-> BuildHeaders(options, token),
     timeout |-> Timeout,
     onUnauthorized |-> options.onUnauthorized]

NoInstance == [baseURL |-> "", headers |-> [contentType |-> NoHeader, authorization |-> NoHeader],
               timeout |-> 0, onUnauthorized |-> FALSE]

----------------------------------------------------------------------------
\* Errors a request can fail with. kind: "axios" (axios.isAxiosError),
\* "error" (any other Error), "other" (a thrown value that is not an Error).

NoBody == JsString("")

AxiosError(message, ecode, hasResponse, status, body) ==
    [kind |-> "axios", message |-> message, ecode |-> ecode,
     hasResponse |-> hasResponse, status |-> status, body |-> body]

GenericError(message) ==
    [kind |-> "error", message |-> message, ecode |-> "",
     hasResponse |-> FALSE, status |-> 0, body |-> NoBody]

ThrownValue ==
    [kind |-> "other", message |-> "", ecode |-> "",
     hasResponse |-> FALSE, status |-> 0, body |-> NoBody]

NoError ==
    [kind |-> "none", message |-> "", ecode |-> "",
     hasResponse |-> FALSE, status |-> 0, body |-> NoBody]

\* Network-class failures: no response was received.
NetworkErrors ==
    {AxiosError("Network Error", "ECONNREFUSED", FALSE, 0, NoBody),
     AxiosError("getaddrinfo ENOTFOUND", "ENOTFOUND", FALSE, 0, NoBody),
     AxiosError("", "", FALSE, 0, NoBody)}

\* The per-attempt timeout elapsed.
TimeoutError == AxiosError("timeout exceeded", "ECONNABORTED", FALSE, 0, NoBody)

\* Non-2xx responses (validateStatus rejects them).
ErrorStatuses == {401, 500}
ResponseErrors ==
    {AxiosError("Request failed", IF st >= 500 THEN "ERR_BAD_RESPONSE" ELSE "ERR_BAD_REQUEST",
                TRUE, st, b) : st \in ErrorStatuses, b \in Bodies}

AxiosErrors == NetworkErrors \cup {TimeoutError} \cup ResponseErrors

\* Failures raised around the transport (a transform or adapter that throws).
OtherFailures == {GenericError("boom"), ThrownValue}

\* `response.data.code` on a null body.
TypeErrorOnNull == GenericError("Cannot read properties of null")

\* msg fallbacks of handleError (ASCII stand-ins for the source's literals).
RequestFailedMsg == "request failed"
UnknownErrorMsg == "unknown error"

\* handleError, lines 121-149.
handleError(error) ==
    IF error.kind = "axios"
    THEN IF error.hasResponse /\ Truthy(error.body)
         THEN error.body
         ELSE JsObject(Null,
                       IF error.message # "" THEN error.message ELSE RequestFailedMsg,
                       IF error.hasResponse /\ error.status # 0 THEN error.status
                                                                  ELSE FallbackCode)
    ELSE IF error.kind = "error"
    THEN JsObject(Null, error.message, FallbackCode)
    ELSE JsObject(Null, UnknownErrorMsg, FallbackCode)

----------------------------------------------------------------------------
\* Retry policy, lines 50-60 (axios-retry configured with retries,
\* retryDelay and retryCondition).

Verbs == {"get", "post", "put", "delete", "patch"}

\* axios-retry: IDEMPOTENT_HTTP_METHODS restricted to the facade's verbs.
IdempotentVerbs == {"get", "put", "delete"}

\* is-retry-allowed: codes that are never retried as network errors.
RetryDenyList == {"ENOTFOUND"}

isNetworkError(error) ==
    /\ ~error.hasResponse
    /\ error.ecode # ""
    /\ error.ecode # "ECONNABORTED"
    /\ error.ecode \notin RetryDenyList

isRetryableError(error) ==
    /\ error.ecode # "ECONNABORTED"
    /\ (~error.hasResponse \/ error.status = 429
          \/ (error.status >= 500 /\ error.status <= 599))

isIdempotentRequestError(error, verb) ==
    isRetryableError(error) /\ verb \in IdempotentVerbs

\* A retry condition that retries every failure.
retryConditionAlways(error, verb) == TRUE

\* retryCondition, lines 56-59.
retryCondition(error, verb) ==
    isNetworkError(error) \/ isIdempotentRequestError(error, verb)

\* A retry delay that is constant instead of linear.
retryDelayConstant(retryCount) == RetryDelayUnit

\* retryDelay, lines 52-55.
retryDelay(retryCount) == retryCount * RetryDelayUnit

----------------------------------------------------------------------------
\* Response interceptor, lines 63-71, applied to a 2xx response of an
\* instance: reading `.code` of a null body throws; a body whose code is 401
\* runs the optional hook; the response itself is passed on.

InterceptorThrows(body) == body.type = "null"

InterceptorHookCalls(instance, body) ==
    IF body.type = "object" /\ body.code = UnauthorizedCode /\ instance.onUnauthorized
    THEN 1 ELSE 0

InterceptorResult(body) == body

\* axiosRetry is attached (line 50) before the response interceptor (line 63),
\* and a retry re-issues the request through the instance itself. The
\* response of attempt k therefore passes the interceptor once in the chain of
\* each of the k nested instance calls that are waiting for it.
InterceptorPasses(attempts) == attempts

\* The rejected branch of the interceptor, line 70: the error is passed on
\* and the hook is not consulted.
InterceptorHookCallsOnError(instance, error) == 0

----------------------------------------------------------------------------
\* The method facade, createApiClient, lines 158-356.

\* Keys of the object createApiClient returns (lines 346-355).
ClientKeys == Verbs \cup {"withoutBaseResponse"}

\* Names under which the raw methods are defined inside createApiClient.
RawMethodNames ==
    {"getWithoutBaseResponse", "postWithoutBaseResponse", "putWithoutBaseResponse",
     "deleteWithoutBaseResponse", "patchWithoutBaseResponse"}

Props == ClientKeys \cup RawMethodNames

\* Reflect.get(apiClientInstance, prop)
ReflectGet(prop) == IF prop \in ClientKeys THEN prop ELSE Undef

\* A get trap that forgets the initialization check.
ProxyThrowsUnchecked(instance) == FALSE

\* The proxy's get trap, lines 407-412.
ProxyThrows(instance) == instance = NoInstance

ProxyGet(instance, prop) ==
    IF ProxyThrows(instance)
    THEN [prop |-> prop, threw |-> TRUE, value |-> Undef]
    ELSE [prop |-> prop, threw |-> FALSE, value |-> ReflectGet(prop)]

NoAccess == [prop |-> "", threw |-> FALSE, value |-> Undef]

\* The logical call: `client` is the client whose method was called and
\* `direct` tells whether the caller built it with the exported functions
\* instead of reaching it through `request`. pc follows the promise chain:
\* "inflight" (an attempt is on the wire), "waiting" (retry timer running),
\* "responded" (a 2xx response is travelling through the response
\* interceptors, `passesLeft` of them still to run), "failing" (a rejection
\* is travelling to the suspended facade method), "resolved" / "rejected"
\* (the facade method's promise has settled).
IdleCall ==
    [pc |-> "idle", verb |-> "get", raw |-> FALSE,
     client |-> NoInstance, direct |-> FALSE,
     headers |-> NoInstance.headers, attempts |-> 0, retryCount |-> 0,
     delays |-> <<>>, pendingDelay |-> 0, timeout |-> 0, hookCalls |-> 0,
     passesLeft |-> 0,
     served |-> NoBody, value |-> NoBody, error |-> NoError]

\* Headers recomputed per request from the current token.
RequestHeadersRecomputed(instance, token) ==
    [instance.headers EXCEPT
        !.authorization = IF @ = NoHeader THEN @ ELSE "Bearer " \o TemplateString(token)]

\* Headers sent with a request: the instance defaults fixed by axios.create.
RequestHeaders(instance, token) == instance.headers

\* A rejection leaves the instance call: the facade method, suspended at
\* `await api.<verb>(...)`, will see it in a later microtask.
Fail(c, error) ==
    [c EXCEPT !.pc = "failing", !.error = error, !.passesLeft = 0]

\* A facade method settles on a failure: the enveloped method catches and
\* returns handleError(error); the raw method lets the error propagate.
SettleFailure(c, error) ==
    IF c.raw
    THEN [c EXCEPT !.pc = "rejected", !.error = error]
    ELSE [c EXCEPT !.pc = "resolved", !.error = error, !.value = handleError(error)]

\* Both method families return response.data on success.
SettleSuccess(c, data) == [c EXCEPT !.pc = "resolved", !.value = data]

----------------------------------------------------------------------------
\* No params object has been handed to the serializer.
NoQuery == [pc |-> "idle", params |-> <<>>, out |-> <<>>]

\* Nothing has built a client yet.
NoFirstInit ==
    [done |-> FALSE,
     options |-> [baseURL |-> "", getToken |-> "absent", onUnauthorized |-> FALSE],
     token |-> Null]

\* Initial state: module loaded, nothing initialized, nothing requested.

Init ==
    /\ apiClientInstance = NoInstance
    /\ tokenStore \in Tokens
    /\ getTokenCalls = 0
    /\ warnings = 0
    /\ initCalls = 0
    /\ directCalls = 0
    /\ directClients = {}
    /\ lastInit = "none"
    /\ firstInit = NoFirstInit
    /\ lastAccess = NoAccess
    /\ call = IdleCall
    /\ query = NoQuery

\* The application logs in or out: the token store changes.
SetToken(t) ==
    /\ t # tokenStore
    /\ tokenStore' = t
    /\ UNCHANGED <<apiClientInstance, getTokenCalls, warnings, initCalls,
                   directCalls, directClients, lastInit, firstInit, lastAccess, call, query>>

\* A guard that lets every call rebuild the client.
AlreadyInitializedIgnored(instance) == FALSE

\* A guard on "initApiClient was called before" instead of on the instance.
AlreadyInitializedByFlag(instance) == initCalls > 0

\* The guard of initApiClient, line 374.
AlreadyInitialized(instance) == instance # NoInstance

\* initApiClient(options), lines 373-380.
initApiClient(options) ==
    /\ initCalls < MaxInitCalls
    /\ initCalls' = initCalls + 1
    /\ IF AlreadyInitialized(apiClientInstance)
       THEN /\ warnings' = warnings + 1
            /\ lastInit' = "warned"
            /\ UNCHANGED <<apiClientInstance, getTokenCalls, firstInit>>
       ELSE IF options.getToken = "throws"
       THEN /\ getTokenCalls' = getTokenCalls + 1
            /\ lastInit' = "threw"
            /\ UNCHANGED <<apiClientInstance, warnings, firstInit>>
       ELSE /\ getTokenCalls' = getTokenCalls + (IF options.getToken = "absent" THEN 0 ELSE 1)
            /\ apiClientInstance' = createApi(options, tokenStore)
            /\ lastInit' = "initialized"
            /\ firstInit' = IF firstInit.done THEN firstInit
                             ELSE [done |-> TRUE, options |-> options,
                                   token |-> IF options.getToken = "absent"
                                             THEN Null ELSE tokenStore]
            /\ UNCHANGED warnings
    /\ UNCHANGED <<tokenStore, directCalls, directClients, lastAccess, call, query>>

\* `request[prop]` read without calling the result.
PropertyAccess(prop) ==
    /\ lastAccess' = ProxyGet(apiClientInstance, prop)
    /\ lastAccess' # lastAccess
    /\ UNCHANGED <<apiClientInstance, tokenStore, getTokenCalls, warnings,
                   initCalls, directCalls, directClients, lastInit, firstInit, call, query>>

\* The first attempt of a logical call is sent through `client`.
SendFirstAttempt(client, direct, verb, raw) ==
    [IdleCall EXCEPT
        !.pc = "inflight", !.verb = verb, !.raw = raw,
        !.client = client, !.direct = direct,
        !.headers = RequestHeaders(client, tokenStore),
        !.attempts = 1, !.timeout = client.timeout]

\* `request.<verb>(url)` or `request.withoutBaseResponse.<verb>(url)`: the
\* property access, then (unless it threw) the first attempt is sent.
Request(verb, raw) ==
    /\ call.pc \in {"idle", "resolved", "rejected"}
    /\ lastAccess' = ProxyGet(apiClientInstance, IF raw THEN "withoutBaseResponse" ELSE verb)
    /\ IF lastAccess'.threw
       THEN /\ lastAccess' # lastAccess
            /\ UNCHANGED call
       ELSE call' = SendFirstAttempt(apiClientInstance, FALSE, verb, raw)
    /\ UNCHANGED <<apiClientInstance, tokenStore, getTokenCalls, warnings,
                   initCalls, directCalls, directClients, lastInit, firstInit, query>>

\* Options of the clients explored where requests are sent: the base URL
\* takes no part in what the modelled request does, one value is explored.
RequestOptions == {o \in CreateApiOptions : o.baseURL = "https://a.example"}

\* Options handed to a direct createApi call.
DirectOptions == RequestOptions

\* Every client a direct createApi call can return.
DirectClients == {createApi(o, t) : o \in DirectOptions, t \in Tokens}

\* Methods called on a directly built client: one verb that axios-retry
\* treats as idempotent and one that it does not.
DirectVerbs == {"get", "post"}

\* initApiClient(options) in a behaviour that also sends requests.
InitForRequests(options) ==
    /\ initCalls < MaxRequestInits
    /\ initApiClient(options)

\* The exported createApi(options) called by the application itself (lines
\* 29-74, exported at 29 and 417): getToken runs if supplied; when it throws
\* nothing is built, otherwise the client goes to the caller, who keeps it.
\* The singleton is neither read nor written.
DirectCreateApi(options) ==
    /\ directCalls < MaxDirectCalls
    /\ directCalls' = directCalls + 1
    /\ getTokenCalls' = getTokenCalls + (IF options.getToken = "absent" THEN 0 ELSE 1)
    /\ directClients' = IF options.getToken = "throws"
                        THEN directClients
                        ELSE directClients \cup {createApi(options, tokenStore)}
    /\ UNCHANGED <<apiClientInstance, tokenStore, warnings, initCalls, lastInit,
                   firstInit, lastAccess, call, query>>

\* `createApiClient(api).<verb>(url)` (or the same through
\* `.withoutBaseResponse`) on a client `api` that a direct createApi call
\* returned earlier: `request` and the singleton take no part in it.
DirectRequest(client, verb, raw) ==
    /\ client \in directClients
    /\ call.pc \in {"idle", "resolved", "rejected"}
    /\ call' = SendFirstAttempt(client, TRUE, verb, raw)
    /\ call' # call
    /\ UNCHANGED <<apiClientInstance, tokenStore, getTokenCalls, warnings,
                   initCalls, directCalls, directClients, lastInit, firstInit,
                   lastAccess, query>>

\* Time an attempt can take before it fails (ms).
Durations == {0, 9000}

\* The current attempt gets a 2xx response with the given body: the
\* response enters the fulfilled branch of the response interceptor of each
\* pending instance call.
AttemptSucceeds(body) ==
    /\ call.pc = "inflight"
    /\ call' = [call EXCEPT !.pc = "responded", !.served = body, !.value = body,
                            !.passesLeft = InterceptorPasses(call.attempts)]
    /\ UNCHANGED <<apiClientInstance, tokenStore, getTokenCalls, warnings,
                   initCalls, directCalls, directClients, lastInit, firstInit, lastAccess, query>>

\* One pass of the response interceptor (lines 64-69) runs as a callback of
\* its own: it throws on a null body, otherwise runs the hook on code 401
\* and passes the response on; the facade method is still suspended.
InterceptorRuns ==
    /\ call.pc = "responded"
    /\ call.passesLeft > 0
    /\ call' = IF InterceptorThrows(call.value)
               THEN Fail(call, TypeErrorOnNull)
               ELSE [call EXCEPT !.hookCalls = @ + InterceptorHookCalls(call.client, call.value),
                                 !.value = InterceptorResult(call.value),
                                 !.passesLeft = @ - 1]
    /\ UNCHANGED <<apiClientInstance, tokenStore, getTokenCalls, warnings,
                   initCalls, directCalls, directClients, lastInit, firstInit, lastAccess, query>>

\* The current attempt fails with an axios error after `duration` ms (a
\* timeout fails when the attempt's whole timeout has elapsed): the
\* retry interceptor either schedules the next attempt or passes the error
\* on towards the facade method.
AttemptFails(error, duration) ==
    /\ call.pc = "inflight"
    /\ error \in AxiosErrors
    /\ error # TimeoutError => duration < call.timeout
    /\ LET failed == [call EXCEPT !.hookCalls =
                                     @ + InterceptorHookCallsOnError(call.client, error)]
           count == call.retryCount + 1
           delay == retryDelay(count)
           elapsed == IF error = TimeoutError THEN call.timeout ELSE duration
           left == call.timeout - elapsed - delay
       IN  IF call.retryCount < Retries /\ retryCondition(error, call.verb)
           THEN IF left <= 0
                THEN call' = Fail([failed EXCEPT !.retryCount = count,
                                                 !.served = error.body], error)
                ELSE call' = [call EXCEPT !.pc = "waiting", !.retryCount = count,
                                         !.pendingDelay = delay, !.timeout = left]
           ELSE call' = Fail([failed EXCEPT !.served = error.body], error)
    /\ UNCHANGED <<apiClientInstance, tokenStore, getTokenCalls, warnings,
                   initCalls, directCalls, directClients, lastInit, firstInit, lastAccess, query>>

\* The underlying call rejects with something that is not an axios error.
ClientThrows(error) ==
    /\ call.pc = "inflight"
    /\ error \in OtherFailures
    /\ call' = Fail(call, error)
    /\ UNCHANGED <<apiClientInstance, tokenStore, getTokenCalls, warnings,
                   initCalls, directCalls, directClients, lastInit, firstInit, lastAccess, query>>

\* The retry timer fires: the next attempt is sent.
RetryFires ==
    /\ call.pc = "waiting"
    /\ call' = [call EXCEPT !.pc = "inflight", !.attempts = @ + 1,
                            !.delays = Append(@, call.pendingDelay),
                            !.pendingDelay = 0]
    /\ UNCHANGED <<apiClientInstance, tokenStore, getTokenCalls, warnings,
                   initCalls, directCalls, directClients, lastInit, firstInit, lastAccess, query>>

\* The facade method resumes after `await api.<verb>(...)` (e.g. lines
\* 169-173 and 187-188): with the response once every interceptor has
\* passed it on, or in its catch block with the rejection.
MethodSettles ==
    /\ \/ call.pc = "responded" /\ call.passesLeft = 0
       \/ call.pc = "failing"
    /\ call' = IF call.pc = "failing"
               THEN SettleFailure(call, call.error)
               ELSE SettleSuccess(call, call.value)
    /\ UNCHANGED <<apiClientInstance, tokenStore, getTokenCalls, warnings,
                   initCalls, directCalls, directClients, lastInit, firstInit, lastAccess, query>>

\* The singleton: initialization and property accesses on `request`, next to
\* direct constructions with the exported createApi.
NextSingleton ==
    \/ \E t \in Tokens : SetToken(t)
    \/ \E o \in CreateApiOptions : initApiClient(o)
    \/ \E o \in DirectOptions : DirectCreateApi(o)
    \/ \E p \in Props : PropertyAccess(p)

SpecSingleton == Init /\ [][NextSingleton]_vars

\* Requests, through the singleton or through a directly built client:
\* initialization, then logical calls with every outcome of every attempt.
Next ==
    \/ \E t \in Tokens : SetToken(t)
    \/ \E o \in RequestOptions : InitForRequests(o)
    \/ \E o \in DirectOptions : DirectCreateApi(o)
    \/ \E v \in Verbs, r \in BOOLEAN : Request(v, r)
    \/ \E c \in DirectClients, v \in DirectVerbs, r \in BOOLEAN : DirectRequest(c, v, r)
    \/ \E b \in Bodies : AttemptSucceeds(b)
    \/ InterceptorRuns
    \/ \E e \in AxiosErrors, d \in Durations : AttemptFails(e, d)
    \/ \E e \in OtherFailures : ClientThrows(e)
    \/ RetryFires
    \/ MethodSettles

Spec == Init /\ [][Next]_vars

----------------------------------------------------------------------------
\* Properties of the singleton (checked under SpecSingleton).

\* C2: a property access on `request` made while no initApiClient call has
\* built a client throws, on every access; once a call has built the client,
\* an access never throws and the access to a client key returns that member
\* of the client.
C2_AccessGuarded ==
    [][lastAccess' # lastAccess =>
          IF firstInit.done
          THEN /\ ~lastAccess'.threw
               /\ lastAccess'.prop \in ClientKeys => lastAccess'.value = lastAccess'.prop
          ELSE lastAccess'.threw]_vars

\* C2 witness: after a failed and then a successful initApiClient, `request.post`
\* was read and returned the method.
C2_Witness ==
    /\ firstInit.done
    /\ initCalls >= 2
    /\ lastAccess.prop = "post"
    /\ ~lastAccess.threw
    /\ lastAccess.value = "post"

\* C3: the client in use is the one built from the options (and the token)
\* of the first successful initApiClient call; once built it never changes
\* and never goes back to null; every later initApiClient call only adds one
\* warning and does not run getToken.
C3_FirstInstanceKept ==
    /\ [](firstInit.done => apiClientInstance = createApi(firstInit.options, firstInit.token))
    /\ [][firstInit.done =>
            /\ apiClientInstance' = apiClientInstance
            /\ apiClientInstance' # NoInstance
            /\ initCalls' # initCalls =>
                  /\ warnings' = warnings + 1
                  /\ getTokenCalls' = getTokenCalls
                  /\ lastInit' = "warned"]_vars

\* C3 witness: a second call with another baseURL was made and answered with
\* the warning; the first baseURL is still in effect.
C3_Witness ==
    /\ firstInit.done
    /\ lastInit = "warned"
    /\ warnings = 2
    /\ apiClientInstance.baseURL = "https://b.example"

----------------------------------------------------------------------------
\* Properties of requests (checked under Spec).

Settled == call.pc \in {"resolved", "rejected"}

\* C1: an enveloped method never rejects, and what it resolves to has the
\* envelope shape {data, msg: string, code: number}, whatever the outcome of
\* the underlying call.
C1_EnvelopedAlwaysEnvelope ==
    (Settled /\ ~call.raw) => (call.pc = "resolved" /\ IsBaseResponse(call.value))

\* C4: on every failure path an enveloped method resolves to a well-formed
\* envelope whose data is null (handleError is total and returns
\* {data: null, msg: string, code: number}).
C4_FailureEnvelopeDataNull ==
    (Settled /\ ~call.raw /\ call.error # NoError) =>
        /\ call.pc = "resolved"
        /\ IsBaseResponse(call.value)
        /\ call.value.data = Null

\* C5: one logical call makes at most 4 attempts; attempt n+1 starts only
\* from the waiting state that follows the failure of attempt n, one at a
\* time; the delay waited before retry n is n * 1000 ms; and when the 4th
\* attempt fails the call goes on to settle without another attempt.
C5_BoundedSequentialRetries ==
    /\ [](/\ call.attempts <= 4
          /\ Len(call.delays) = (IF call.pc = "idle" THEN 0 ELSE call.attempts - 1)
          /\ \A n \in 1..Len(call.delays) : call.delays[n] = n * 1000)
    /\ [][/\ (call.pc = "waiting" /\ call'.pc # "waiting") =>
                (call'.pc = "inflight" /\ call'.attempts = call.attempts + 1)
          /\ (call.pc = "inflight" /\ call' # call) =>
                (call'.pc \in {"waiting", "responded", "failing"}
                    /\ call'.attempts = call.attempts)
          /\ (call.pc = "inflight" /\ call.attempts = 4 /\ call' # call) =>
                call'.pc \in {"responded", "failing"}
          /\ (call.pc \in {"responded", "failing"} /\ call' # call) =>
                (call'.pc \in {"responded", "failing", "resolved", "rejected"}
                    /\ call'.attempts = call.attempts)
          /\ (Settled /\ call' # call) => (call'.pc = "inflight" /\ call'.attempts = 1)]_vars

\* C5 witness: a get whose network failure persisted: 4 attempts, delays
\* 1000, 2000, 3000, then settled with the failure.
C5_Witness ==
    /\ call.pc = "resolved"
    /\ call.verb = "get"
    /\ call.error \in NetworkErrors
    /\ call.attempts = 4
    /\ call.delays = <<1000, 2000, 3000>>

\* C6: a post or patch attempt that fails with an error response hands the
\* error to the facade method at once (no retry is scheduled; a first
\* attempt stays the only one), and a retry is scheduled only after a
\* failure without a response or on an idempotent verb.
C6_NoRetryOnServerError ==
    [][\A e \in AxiosErrors, d \in Durations :
          AttemptFails(e, d) =>
              /\ (call.verb \in {"post", "patch"} /\ e.hasResponse) =>
                    /\ call'.pc = "failing"
                    /\ call'.attempts = call.attempts
                    /\ call'.retryCount = call.retryCount
              /\ call'.pc = "waiting" =>
                    (~e.hasResponse \/ call.verb \in {"get", "put", "delete"})]_vars

\* C6 witness: a post answered with HTTP 500 settled after exactly one attempt.
C6_Witness ==
    /\ Settled
    /\ call.verb = "post"
    /\ call.error.hasResponse
    /\ call.error.status = 500
    /\ call.attempts = 1
    /\ call.retryCount = 0

\* C7: with a hook supplied, every response whose parsed body has code 401
\* has run the hook, whether it came with a 2xx status or not.
C7_HookOnEveryUnauthorizedBody ==
    (/\ Settled
     /\ call.client.onUnauthorized
     /\ call.served.type = "object"
     /\ call.served.code = 401) => call.hookCalls >= 1

\* C8: a 2xx response with the body {code: 401, msg, data: null} runs the
\* supplied hook exactly once for the request, and the caller receives the
\* body as served.
C8_HookOnceResponseUnchanged ==
    (/\ call.pc = "resolved"
     /\ call.error = NoError
     /\ call.served = EnvUnauthorized) =>
        /\ call.value = EnvUnauthorized
        /\ call.hookCalls = (IF call.client.onUnauthorized THEN 1 ELSE 0)

\* C9: the default headers carry Authorization only if getToken was supplied
\* and returned a non-null value at construction; otherwise none is set.
C9_AuthorizationOnlyWithToken ==
    firstInit.done =>
        (apiClientInstance.headers.authorization # NoHeader
            <=> (firstInit.options.getToken # "absent" /\ firstInit.token # Null))

\* C10: getToken runs once when a client is constructed with it (by
\* initApiClient or by a direct createApi call) and never otherwise: no
\* other step, a request step in particular, changes the number of getToken
\* invocations or the singleton, and the headers of every request are the
\* headers computed when its client was constructed, also after the token
\* has changed.
C10_HeadersFixedAtConstruction ==
    /\ [](call.pc # "idle" =>
            /\ call.headers = call.client.headers
            /\ call.direct => call.client \in directClients
            /\ ~call.direct =>
                  /\ call.client = apiClientInstance
                  /\ call.headers = BuildHeaders(firstInit.options, firstInit.token))
    /\ [][/\ (initCalls' = initCalls /\ directCalls' = directCalls) =>
                (getTokenCalls' = getTokenCalls /\ apiClientInstance' = apiClientInstance)
          /\ (apiClientInstance = NoInstance /\ apiClientInstance' # NoInstance) =>
                getTokenCalls' = getTokenCalls +
                    (IF firstInit'.options.getToken = "absent" THEN 0 ELSE 1)
          /\ (apiClientInstance # NoInstance /\ directCalls' = directCalls) =>
                getTokenCalls' = getTokenCalls
          /\ directCalls' # directCalls =>
                /\ getTokenCalls' \in {getTokenCalls, getTokenCalls + 1}
                /\ apiClientInstance' = apiClientInstance
                /\ call' = call
                /\ \A c \in directClients' \ directClients :
                      c.headers.authorization # NoHeader =>
                          getTokenCalls' = getTokenCalls + 1
          /\ directCalls' = directCalls => directClients' = directClients]_vars

\* C10 witness: the token changed after construction and a request was sent
\* through `request` with the header of the construction-time token.
C10_Witness ==
    /\ call.pc = "inflight"
    /\ ~call.direct
    /\ firstInit.options.getToken = "store"
    /\ firstInit.token = "t1"
    /\ tokenStore = Null
    /\ directCalls = 0
    /\ getTokenCalls = 1
    /\ call.headers.authorization = "Bearer t1"

\* C11: the result of handleError is that of the first matching case:
\* (1) a transport error whose response body has the envelope shape gives
\* that body; (2) any other transport error gives {data: null, msg: its
\* message or the 'request failed' text, code: its HTTP status or 500};
\* (3) any other Error gives {data: null, msg: its message, code: 500};
\* (4) any other value gives {data: null, msg: the 'unknown error' text,
\* code: 500}.
C11_HandleErrorPriority ==
    (call.pc = "resolved" /\ ~call.raw /\ call.error # NoError) =>
        call.value =
            IF call.error.kind = "axios" /\ call.error.hasResponse
                                         /\ IsBaseResponse(call.error.body)
            THEN call.error.body
            ELSE IF call.error.kind = "axios"
            THEN JsObject(Null,
                          IF call.error.message # "" THEN call.error.message
                                                     ELSE "request failed",
                          IF call.error.hasResponse THEN call.error.status ELSE 500)
            ELSE IF call.error.kind = "error"
            THEN JsObject(Null, call.error.message, 500)
            ELSE JsObject(Null, "unknown error", 500)

----------------------------------------------------------------------------
\* The query serializer, lines 41-45: qs.stringify(params, { arrayFormat:
\* 'brackets' }). Text is a sequence of one-character strings.

\* longest array value explored
MaxItems == 2

\* A scalar parameter value: a number or a string.
Num(n) == [isNum |-> TRUE, n |-> n, s |-> <<>>]
Str(s) == [isNum |-> FALSE, n |-> 0, s |-> s]

Scalars == {Num(1), Num(2), Num(10), Str(<<"x">>), Str(<<"1", ",", "2">>)}

DigitChars == <<"0", "1", "2", "3", "4", "5", "6", "7", "8", "9">>

\* String(n) of a non-negative integer.
RECURSIVE NumToChars(_)
NumToChars(n) ==
    IF n < 10 THEN <<DigitChars[n + 1]>>
    ELSE NumToChars(n \div 10) \o <<DigitChars[(n % 10) + 1]>>

ToChars(v) == IF v.isNum THEN NumToChars(v.n) ELSE v.s

\* qs encodes keys and values by default: every character outside the
\* unreserved set is percent-encoded.
PercentCode(c) ==
    CASE c = "[" -> <<"%", "5", "B">>
      [] c = "]" -> <<"%", "5", "D">>
      [] c = "," -> <<"%", "2", "C">>
      [] c = "&" -> <<"%", "2", "6">>
      [] c = "=" -> <<"%", "3", "D">>
      [] OTHER -> <<c>>

RECURSIVE Encode(_)
Encode(text) ==
    IF text = <<>> THEN <<>> ELSE PercentCode(Head(text)) \o Encode(Tail(text))

\* The key of an array element with arrayFormat 'repeat'.
ArrayKeyRepeat(key) == key

\* The key of an array element with arrayFormat 'brackets'.
ArrayKey(key) == key \o <<"[", "]">>

Pair(key, value) == Encode(key) \o <<"=">> \o Encode(ToChars(value))

\* The pairs of one entry of the params object: one pair for a scalar, one
\* pair per element for an array (none for an empty array).
EntryPairs(entry) ==
    IF entry.isArray
    THEN [i \in 1..Len(entry.items) |-> Pair(ArrayKey(entry.key), entry.items[i])]
    ELSE <<Pair(entry.key, entry.items[1])>>

RECURSIVE AllPairs(_)
AllPairs(params) ==
    IF params = <<>> THEN <<>> ELSE EntryPairs(Head(params)) \o AllPairs(Tail(params))

RECURSIVE JoinPairs(_)
JoinPairs(pairs) ==
    IF pairs = <<>> THEN <<>>
    ELSE IF Len(pairs) = 1 THEN pairs[1]
    ELSE pairs[1] \o <<"&">> \o JoinPairs(Tail(pairs))

\* paramsSerializer.serialize(params)
serialize(params) == JoinPairs(AllPairs(params))

\* Params objects: the keys a and b in insertion order, each holding a
\* scalar or an array of scalars.
ItemLists == UNION {[1..k -> Scalars] : k \in 0..MaxItems}
EntriesOf(key) ==
    {[key |-> key, isArray |-> FALSE, items |-> <<v>>] : v \in Scalars}
        \cup {[key |-> key, isArray |-> TRUE, items |-> l] : l \in ItemLists}
ParamObjects ==
    {<<>>} \cup {<<e>> : e \in EntriesOf(<<"a">>)}
           \cup {<<e, f>> : e \in EntriesOf(<<"a">>), f \in EntriesOf(<<"b">>)}

\* { a: [1, 2], b: "x" }
ExampleParams ==
    <<[key |-> <<"a">>, isArray |-> TRUE, items |-> <<Num(1), Num(2)>>],
      [key |-> <<"b">>, isArray |-> FALSE, items |-> <<Str(<<"x">>)>>]>>

\* A request is about to serialize some params object.
InitSerialize ==
    /\ apiClientInstance = NoInstance
    /\ tokenStore \in Tokens
    /\ getTokenCalls = 0
    /\ warnings = 0
    /\ initCalls = 0
    /\ directCalls = 0
    /\ directClients = {}
    /\ lastInit = "none"
    /\ firstInit = NoFirstInit
    /\ lastAccess = NoAccess
    /\ call = IdleCall
    /\ query \in {[pc |-> "input", params |-> p, out |-> <<>>] : p \in ParamObjects}

\* The serializer runs on the params object.
Serialize ==
    /\ query.pc = "input"
    /\ query' = [query EXCEPT !.pc = "done", !.out = serialize(query.params)]
    /\ UNCHANGED <<apiClientInstance, tokenStore, getTokenCalls, warnings, initCalls,
                   directCalls, directClients, lastInit, firstInit, lastAccess, call>>

NextSerialize == Serialize

SpecSerialize == InitSerialize /\ [][NextSerialize]_vars

----------------------------------------------------------------------------
\* Properties of the query serializer (checked under SpecSerialize).

\* What a server reads back from a percent-encoded text.
PercentDecoded(h, l) ==
    CASE <<h, l>> = <<"5", "B">> -> "["
      [] <<h, l>> = <<"5", "D">> -> "]"
      [] <<h, l>> = <<"2", "C">> -> ","
      [] <<h, l>> = <<"2", "6">> -> "&"
      [] <<h, l>> = <<"3", "D">> -> "="
      [] OTHER -> "?"

RECURSIVE Decode(_)
Decode(text) ==
    IF text = <<>> THEN <<>>
    ELSE IF Head(text) = "%" /\ Len(text) >= 3
    THEN <<PercentDecoded(text[2], text[3])>> \o Decode(SubSeq(text, 4, Len(text)))
    ELSE <<Head(text)>> \o Decode(Tail(text))

\* The pieces of a query string between its "&" separators.
RECURSIVE SplitPairs(_, _)
SplitPairs(text, current) ==
    IF text = <<>> THEN (IF current = <<>> THEN <<>> ELSE <<current>>)
    ELSE IF Head(text) = "&" THEN <<current>> \o SplitPairs(Tail(text), <<>>)
    ELSE SplitPairs(Tail(text), Append(current, Head(text)))

\* The pairs of the bracket convention, unencoded: k[]=v for each element of
\* an array-valued k, k=v for a scalar.
RECURSIVE BracketPairs(_)
BracketPairs(params) ==
    IF params = <<>> THEN <<>>
    ELSE LET e == Head(params)
         IN  (IF e.isArray
              THEN [i \in 1..Len(e.items) |->
                       e.key \o <<"[", "]", "=">> \o ToChars(e.items[i])]
              ELSE <<e.key \o <<"=">> \o ToChars(e.items[1])>>)
             \o BracketPairs(Tail(params))

\* C12 as stated: { a: [1, 2], b: "x" } serializes to exactly
\* a[]=1&a[]=2&b=x.
C12_BitExactBrackets ==
    (query.pc = "done" /\ query.params = ExampleParams) =>
        query.out = <<"a", "[", "]", "=", "1", "&", "a", "[", "]", "=", "2", "&", "b", "=", "x">>

\* C12 amended: { a: [1, 2], b: "x" } serializes to exactly
\* a%5B%5D=1&a%5B%5D=2&b=x, and in general the output has one pair per array
\* element and per scalar, in order, and each pair percent-decodes to k[]=v
\* for an element of an array-valued k and to k=v for a scalar.
C12_BracketsPercentEncoded ==
    query.pc = "done" =>
        /\ query.params = ExampleParams =>
              query.out = <<"a", "%", "5", "B", "%", "5", "D", "=", "1", "&",
                            "a", "%", "5", "B", "%", "5", "D", "=", "2", "&",
                            "b", "=", "x">>
        /\ LET pairs == SplitPairs(query.out, <<>>)
               expected == BracketPairs(query.params)
           IN  /\ Len(pairs) = Len(expected)
               /\ \A i \in 1..Len(pairs) : Decode(pairs[i]) = expected[i]

\* C12 witness: the example object has been serialized, with its two-element
\* array giving two pairs.
C12_Witness ==
    /\ query.pc = "done"
    /\ query.params = ExampleParams
    /\ Len(SplitPairs(query.out, <<>>)) = 3

----------------------------------------------------------------------------
\* Further properties of the singleton (checked under SpecSingleton).

\* C13: after initialization each of the ten documented methods is a
\* callable property of `request` itself: reading it yields a method, not
\* undefined.
C13_TenMethodsExposed ==
    (/\ firstInit.done
     /\ ~lastAccess.threw
     /\ lastAccess.prop \in
            {"get", "getWithoutBaseResponse", "post", "postWithoutBaseResponse",
             "put", "putWithoutBaseResponse", "delete", "deleteWithoutBaseResponse",
             "patch", "patchWithoutBaseResponse"}) =>
        lastAccess.value # Undef

\* C14: an initApiClient call whose getToken throws leaves the singleton
\* uninitialized and emits no warning; property accesses made after it still
\* throw; and the next call whose construction succeeds is not treated as a
\* duplicate: it builds the client without a warning.
C14_FailedInitLeavesUninitialized ==
    [][/\ (initCalls' # initCalls /\ lastInit' = "threw") =>
              /\ apiClientInstance = NoInstance
              /\ apiClientInstance' = NoInstance
              /\ ~firstInit'.done
              /\ warnings' = warnings
       /\ (lastAccess' # lastAccess /\ lastInit = "threw" /\ ~firstInit.done) =>
              lastAccess'.threw
       /\ (initCalls' # initCalls /\ lastInit = "threw" /\ ~firstInit.done
                                  /\ lastInit' # "threw") =>
              /\ lastInit' = "initialized"
              /\ apiClientInstance' # NoInstance
              /\ firstInit'.done
              /\ warnings' = warnings]_vars

\* C14 witness: a call whose getToken threw was followed by a call without
\* getToken, which initialized the client without a warning; a property
\* access in between threw.
C14_Witness ==
    /\ lastInit = "initialized"
    /\ initCalls = 2
    /\ directCalls = 0
    /\ getTokenCalls = 1
    /\ firstInit.options.getToken = "absent"
    /\ warnings = 0
    /\ lastAccess.threw

====
